---- MODULE Spec2Model ----
(***************************************************************************)
(* express-jobly: the auth middleware chain (middleware/auth.js), the      *)
(* partial-update builder (helpers/sql.js) and the Job / Company models.   *)
(*                                                                         *)
(* Three specifications share the module:                                  *)
(*   SpecAuth  one request passing through authenticateJWT and one gate    *)
(*   SpecSql   the query builders and findSome, applied to drawn inputs    *)
(*   SpecDb    Job.create / Job.remove / Company.create / Company.remove   *)
(*             running concurrently, one db.query per atomic step          *)
(***************************************************************************)
EXTENDS Integers, Sequences, FiniteSets, TLC

VARIABLES
    req,        \* auth: the request (headers, params)
    locals,     \* auth: res.locals
    ran,        \* auth: the middleware function that ran last
    nextCalls,  \* auth: number of times that function called next()
    thrown,     \* auth: the error that function threw ("none" if it returned)
    sqlCall,    \* sql: the builder / findSome call made last
    sqlRet,     \* sql: what that call returned or threw
    companies,  \* db: rows of table companies
    jobs,       \* db: rows of table jobs
    nextId,     \* db: next value of the jobs.id sequence
    calls       \* db: the model calls in flight, per call slot

vars == <<req, locals, ran, nextCalls, thrown, sqlCall, sqlRet,
          companies, jobs, nextId, calls>>
authVars == <<req, locals, ran, nextCalls, thrown>>
sqlVars == <<sqlCall, sqlRet>>
dbVars == <<companies, jobs, nextId, calls>>

(***************************************************************************)
(* JavaScript values, tagged with their type so that === (type and value)  *)
(* and truthiness differ the way they do in the language.                  *)
(***************************************************************************)
Undefined == [t |-> "undefined", v |-> ""]
Bool(b) == [t |-> "boolean", v |-> IF b THEN "true" ELSE "false"]
Str(s) == [t |-> "string", v |-> s]
Num(s) == [t |-> "number", v |-> s]

StrictEq(a, b) == a.t = b.t /\ a.v = b.v

Truthy(a) ==
    ~ \/ a.t = "undefined"
      \/ a.t = "null"
      \/ (a.t = "boolean" /\ a.v = "false")
      \/ (a.t = "string" /\ a.v = "")
      \/ (a.t = "number" /\ a.v = "0")

(***************************************************************************)
(* Auth middleware chain                                                   *)
(***************************************************************************)
SECRET_KEY == "secret"

Usernames == {"test", "admin"}

\* Token payloads: username and isAdmin as signed, iat added by jwt.sign.
IsAdminValues == {Bool(TRUE), Bool(FALSE), Str("true"), Undefined}

Payload(u, a) == [t |-> "object", username |-> u, isAdmin |-> a, iat |-> Num("1")]

NoUser == [t |-> "undefined", username |-> Undefined, isAdmin |-> Undefined,
           iat |-> Undefined]

\* A signed token carries its payload, the key it was signed with, and whether
\* its exp claim has passed.  "garbage" stands for a string that is no JWT.
\* Characters of an authorization header: the words the prefix regex can
\* meet, a space, and a token as one unit.
TokenNames == {"tokTest", "tokAdmin", "tokStrAdmin", "tokNoFlag", "tokAnon",
               "tokWrongKey", "tokExpired", "garbage"}

TokenInfo(tn) ==
    CASE tn = "tokTest" ->
            [payload |-> Payload(Str("test"), Bool(FALSE)), key |-> SECRET_KEY, expired |-> FALSE]
      [] tn = "tokAdmin" ->
            [payload |-> Payload(Str("admin"), Bool(TRUE)), key |-> SECRET_KEY, expired |-> FALSE]
      [] tn = "tokStrAdmin" ->
            [payload |-> Payload(Str("admin"), Str("true")), key |-> SECRET_KEY, expired |-> FALSE]
      [] tn = "tokNoFlag" ->
            [payload |-> Payload(Str("test"), Undefined), key |-> SECRET_KEY, expired |-> FALSE]
      [] tn = "tokAnon" ->
            [payload |-> Payload(Undefined, Bool(FALSE)), key |-> SECRET_KEY, expired |-> FALSE]
      [] tn = "tokWrongKey" ->
            [payload |-> Payload(Str("admin"), Bool(TRUE)), key |-> "wrong", expired |-> FALSE]
      [] tn = "tokExpired" ->
            [payload |-> Payload(Str("admin"), Bool(TRUE)), key |-> SECRET_KEY, expired |-> TRUE]

IsJwt(tn) == tn \in TokenNames \ {"garbage"}

\* Header strings, as sequences of the units above.
HeaderStrings ==
    UNION {{ <<"Bearer", " ", tn>>, <<"bearer", " ", tn>>, <<"BEARER", " ", tn>>,
             <<tn>>, <<"Bearer", " ", " ", tn, " ">>, <<"Bearer", tn>>,
             <<"Bearer", " ", tn, " ", tn>> } : tn \in TokenNames}
    \cup {<<>>, <<"Bearer", " ">>, <<" ">>}

\* req.headers && req.headers.authorization
Requests ==
    [hasHeaders : {FALSE}, authorization : {[t |-> "undefined", s |-> <<>>]},
     username : Usernames]
    \cup
    [hasHeaders : {TRUE},
     authorization : {[t |-> "undefined", s |-> <<>>]}
                     \cup {[t |-> "string", s |-> h] : h \in HeaderStrings},
     username : Usernames]

\* String.prototype.replace(/^[Bb]earer /, "")
StripBearer(s) ==
    IF Len(s) >= 2 /\ s[1] \in {"Bearer", "bearer"} /\ s[2] = " "
    THEN SubSeq(s, 3, Len(s))
    ELSE s

RECURSIVE TrimLeft(_)
TrimLeft(s) == IF s # <<>> /\ Head(s) = " " THEN TrimLeft(Tail(s)) ELSE s

RECURSIVE TrimRight(_)
TrimRight(s) ==
    IF s # <<>> /\ s[Len(s)] = " " THEN TrimRight(SubSeq(s, 1, Len(s) - 1)) ELSE s

\* String.prototype.trim()
Trim(s) == TrimRight(TrimLeft(s))

\* Decoding without checking the signature (jwt.decode).
JwtDecodeOnly(token, key) ==
    IF Len(token) = 1 /\ IsJwt(token[1])
    THEN [ok |-> TRUE, payload |-> TokenInfo(token[1]).payload]
    ELSE [ok |-> FALSE, payload |-> NoUser]

\* jwt.verify(token, key): the payload, or a thrown JsonWebTokenError /
\* TokenExpiredError.
JwtVerify(token, key) ==
    IF Len(token) = 1 /\ IsJwt(token[1])
    THEN LET info == TokenInfo(token[1])
         IN  IF info.key # key THEN [ok |-> FALSE, payload |-> NoUser]
             ELSE IF info.expired THEN [ok |-> FALSE, payload |-> NoUser]
             ELSE [ok |-> TRUE, payload |-> info.payload]
    ELSE [ok |-> FALSE, payload |-> NoUser]

\* The value of authHeader: undefined when req.headers is missing.
AuthHeader(r) ==
    IF r.hasHeaders THEN r.authorization ELSE [t |-> "undefined", s |-> <<>>]

HeaderTruthy(h) == h.t = "string" /\ h.s # <<>>

\* A new request arrives: fresh res.locals.
NewRequest ==
    /\ ran \in {"none", "ensureLoggedIn", "ensureIsAdmin", "ensureSameUserOrAdmin"}
    /\ \E r \in Requests : req' = r
    /\ locals' = [user |-> NoUser]
    /\ ran' = "request"
    /\ nextCalls' = 0
    /\ thrown' = "none"
    /\ UNCHANGED <<sqlVars, dbVars>>

authenticateJWT ==
    /\ ran = "request"
    /\ LET authHeader == AuthHeader(req)
       IN  IF HeaderTruthy(authHeader)
           THEN LET token == Trim(StripBearer(authHeader.s))
                    res == JwtVerify(token, SECRET_KEY)
                IN  IF res.ok
                    THEN locals' = [locals EXCEPT !.user = res.payload]
                    ELSE locals' = locals      \* catch (err) { return next(); }
           ELSE locals' = locals
    /\ nextCalls' = 1
    /\ thrown' = "none"
    /\ ran' = "authenticateJWT"
    /\ UNCHANGED <<req, sqlVars, dbVars>>

ensureLoggedIn ==
    /\ ran = "authenticateJWT"
    /\ IF locals.user.t = "undefined"
       THEN nextCalls' = 0 /\ thrown' = "UnauthorizedError"
       ELSE nextCalls' = 1 /\ thrown' = "none"
    /\ ran' = "ensureLoggedIn"
    /\ UNCHANGED <<req, locals, sqlVars, dbVars>>

\* A gate that tests isAdmin for truthiness instead of === true.
IsAdminPassesTruthy(user) ==
    user.t # "undefined" /\ Truthy(user.isAdmin)

IsAdminPasses(user) ==
    user.t # "undefined" /\ StrictEq(user.isAdmin, Bool(TRUE))

ensureIsAdmin ==
    /\ ran = "authenticateJWT"
    /\ IF IsAdminPasses(locals.user)
       THEN nextCalls' = 1 /\ thrown' = "none"
       ELSE nextCalls' = 0 /\ thrown' = "UnauthorizedError"
    /\ ran' = "ensureIsAdmin"
    /\ UNCHANGED <<req, locals, sqlVars, dbVars>>

\* A gate that lets only admins through, whatever the username.
SameUserOrAdminPassesAdminOnly(currentUser, r) ==
    StrictEq(currentUser.isAdmin, Bool(TRUE))

SameUserOrAdminPasses(currentUser, r) ==
    \/ StrictEq(currentUser.username, Str(r.username))
    \/ StrictEq(currentUser.isAdmin, Bool(TRUE))

ensureSameUserOrAdmin ==
    /\ ran = "authenticateJWT"
    /\ IF locals.user.t = "undefined"
       THEN nextCalls' = 0 /\ thrown' = "UnauthorizedError"
       ELSE IF SameUserOrAdminPasses(locals.user, req)
            THEN nextCalls' = 1 /\ thrown' = "none"
            ELSE nextCalls' = 0 /\ thrown' = "UnauthorizedError"
    /\ ran' = "ensureSameUserOrAdmin"
    /\ UNCHANGED <<req, locals, sqlVars, dbVars>>

NextAuth ==
    \/ NewRequest
    \/ authenticateJWT
    \/ ensureLoggedIn
    \/ ensureIsAdmin
    \/ ensureSameUserOrAdmin


(***************************************************************************)
(* SQL text is a sequence of string pieces; Array.prototype.join puts the  *)
(* separator between the pieces of consecutive elements.                   *)
(***************************************************************************)
RECURSIVE Join(_, _)
Join(parts, sep) ==
    IF parts = <<>> THEN <<>>
    ELSE IF Len(parts) = 1 THEN parts[1]
    ELSE parts[1] \o <<sep>> \o Join(Tail(parts), sep)

(***************************************************************************)
(* helpers/sql.js                                                          *)
(***************************************************************************)
MaxFields == 2

FieldNames == {"name", "description", "numEmployees", "logoUrl"}
FieldValues == {"v1", "v2"}
ColumnNames == {"num_employees", "logo_url"}

\* An object literal: its own keys in insertion order, each with its value.
Payloads2(n) ==
    {d \in [1..n -> [k : FieldNames, v : FieldValues]] :
        \A i, j \in 1..n : i # j => d[i].k # d[j].k}

UpdatePayloads == UNION {Payloads2(n) : n \in 0..MaxFields}

\* jsToSql objects: some fields mapped to a (non-empty) column name.
Remappings == UNION {[S -> ColumnNames] : S \in SUBSET FieldNames}

\* jsToSql[colName]: undefined for a key the object does not have.
Lookup(jsToSql, colName) ==
    IF colName \in DOMAIN jsToSql THEN Str(jsToSql[colName]) ELSE Undefined

\* A builder that ignores the remapping.
ColumnForVerbatim(jsToSql, colName) == colName

\* jsToSql[colName] || colName
ColumnFor(jsToSql, colName) ==
    LET m == Lookup(jsToSql, colName)
    IN  IF Truthy(m) THEN m.v ELSE colName

\* `"${jsToSql[colName] || colName}"=$${idx + 1}`, idx counted from 0
SetClause(jsToSql, colName, idx) ==
    <<"\"", ColumnFor(jsToSql, colName), "\"=$", ToString(idx + 1)>>

sqlForPartialUpdate(dataToUpdate, jsToSql) ==
    LET keys == [i \in 1..Len(dataToUpdate) |-> dataToUpdate[i].k]
    IN  IF Len(keys) = 0
        THEN [kind |-> "throw", error |-> "BadRequestError", message |-> "No data",
              text |-> <<>>, values |-> <<>>]
        ELSE LET cols == [i \in 1..Len(keys) |-> SetClause(jsToSql, keys[i], i - 1)]
             IN  [kind |-> "return", error |-> "none", message |-> "",
                  text |-> Join(cols, ", "),
                  values |-> [i \in 1..Len(dataToUpdate) |-> dataToUpdate[i].v]]

(***************************************************************************)
(* Job._createSqlFilter / Company._createSqlFilter                         *)
(***************************************************************************)
JobFilters ==
    [titleLike : {Undefined, Str("net"), Str("c")},
     minSalary : {Undefined, Num("0"), Num("200")},
     hasEquity : {Undefined, Bool(TRUE), Bool(FALSE), Str("yes")}]

CompanyFilters ==
    [nameLike : {Undefined, Str("net"), Str("c")},
     minEmployees : {Undefined, Num("0"), Num("10")},
     maxEmployees : {Undefined, Num("5"), Num("10")}]

\* `%${x}%`
LikePattern(x) == Str("%" \o x.v \o "%")

\* One `if` of a filter builder that pushes a value and a criterion
\* numbered by values.length.
PushCriterion(acc, present, value, lhs) ==
    IF present
    THEN LET vals == Append(acc.values, value)
         IN  [values |-> vals,
              criterias |-> Append(acc.criterias, <<lhs, ToString(Len(vals))>>)]
    ELSE acc

\* A builder that tests hasEquity for truthiness.
PushEquityTruthy(acc, hasEquity) ==
    IF Truthy(hasEquity)
    THEN [acc EXCEPT !.criterias = Append(@, <<"equity > 0">>)]
    ELSE acc

\* if (filterBy.hasEquity === true) criterias.push(`equity > 0`)
PushEquity(acc, hasEquity) ==
    IF StrictEq(hasEquity, Bool(TRUE))
    THEN [acc EXCEPT !.criterias = Append(@, <<"equity > 0">>)]
    ELSE acc

Job_createSqlFilter(filterBy) ==
    LET a0 == [values |-> <<>>, criterias |-> <<>>]
        a1 == PushCriterion(a0, ~StrictEq(filterBy.titleLike, Undefined),
                            LikePattern(filterBy.titleLike), "title ILIKE $")
        a2 == PushCriterion(a1, ~StrictEq(filterBy.minSalary, Undefined),
                            filterBy.minSalary, "salary >= $")
        a3 == PushEquity(a2, filterBy.hasEquity)
    IN  [where |-> Join(a3.criterias, " AND "), values |-> a3.values]

Company_createSqlFilter(filterBy) ==
    LET a0 == [values |-> <<>>, criterias |-> <<>>]
        a1 == PushCriterion(a0, ~StrictEq(filterBy.nameLike, Undefined),
                            LikePattern(filterBy.nameLike), "name ILIKE $")
        a2 == PushCriterion(a1, ~StrictEq(filterBy.minEmployees, Undefined),
                            filterBy.minEmployees, "num_employees >= $")
        a3 == PushCriterion(a2, ~StrictEq(filterBy.maxEmployees, Undefined),
                            filterBy.maxEmployees, "num_employees <= $")
    IN  [where |-> Join(a3.criterias, " AND "), values |-> a3.values]


(***************************************************************************)
(* The query-execution collaborator, for the SELECT that findSome issues:  *)
(* the statement is  <select list and FROM> WHERE <condition> ORDER BY ..  *)
(* A WHERE followed by no condition is a syntax error.                     *)
(***************************************************************************)
ToInt(v) ==
    CASE v = "0" -> 0 [] v = "5" -> 5 [] v = "10" -> 10 [] v = "200" -> 200

\* Case-insensitive pattern match, for the patterns and texts of the model.
ILike(text, pattern) ==
    <<text, pattern>> \in {<<"Net Co", "%net%">>, <<"Net Co", "%c%">>,
                           <<"Acme", "%c%">>, <<"Net Admin", "%net%">>,
                           <<"Cook", "%c%">>}

\* The pieces between two separators of a text.
RECURSIVE Split(_, _)
Split(text, sep) ==
    IF text = <<>> THEN <<>>
    ELSE LET idx == {i \in 1..Len(text) : text[i] = sep}
         IN  IF idx = {} THEN <<text>>
             ELSE LET i == CHOOSE k \in idx : \A m \in idx : k <= m
                  IN  <<SubSeq(text, 1, i - 1)>> \o Split(SubSeq(text, i + 1, Len(text)), sep)

\* $n of a criterion: the n-th bind value.
BindValue(crit, values) ==
    LET n == CHOOSE k \in 1..Len(values) : ToString(k) = crit[2]
    IN  values[n]

BindOk(crit, values) ==
    Len(crit) = 1 \/ \E k \in 1..Len(values) : ToString(k) = crit[2]

RowMatches(row, crit, values) ==
    CASE crit[1] = "equity > 0" -> row.equity # "0"
      [] crit[1] = "title ILIKE $" -> ILike(row.title, BindValue(crit, values).v)
      [] crit[1] = "name ILIKE $" -> ILike(row.name, BindValue(crit, values).v)
      [] crit[1] = "salary >= $" -> row.salary >= ToInt(BindValue(crit, values).v)
      [] crit[1] = "num_employees >= $" ->
            row.numEmployees >= ToInt(BindValue(crit, values).v)
      [] crit[1] = "num_employees <= $" ->
            row.numEmployees <= ToInt(BindValue(crit, values).v)

\* The condition of a statement: the text after WHERE, up to ORDER BY.
Condition(stmt) ==
    LET w == CHOOSE i \in 1..Len(stmt) : stmt[i] = " WHERE "
        o == CHOOSE i \in 1..Len(stmt) : stmt[i] = " ORDER BY "
    IN  SubSeq(stmt, w + 1, o - 1)

HasWhere(stmt) == \E i \in 1..Len(stmt) : stmt[i] = " WHERE "

DbSelect(stmt, values, table) ==
    IF HasWhere(stmt) /\ Condition(stmt) = <<>>
    THEN [kind |-> "throw", error |-> "syntax error", rows |-> {}]
    ELSE LET crits == IF HasWhere(stmt) THEN Split(Condition(stmt), " AND ") ELSE <<>>
         IN  IF \E i \in 1..Len(crits) : ~BindOk(crits[i], values)
             THEN [kind |-> "throw", error |-> "there is no parameter", rows |-> {}]
             ELSE [kind |-> "return", error |-> "none",
                   rows |-> {r \in table :
                               \A i \in 1..Len(crits) : RowMatches(r, crits[i], values)}]

\* The statement text of Job.findSome, with ${where} interpolated.
JobFindSomeSql(where) ==
    <<"SELECT id, title, salary, equity, company_handle AS \"companyHandle\" FROM jobs",
      " WHERE ">> \o where \o <<" ORDER BY ", "company_handle, title">>

\* The statement text of Company.findSome, with ${where} interpolated.
CompanyFindSomeSql(where) ==
    <<"SELECT handle, name, description, num_employees AS \"numEmployees\", logo_url AS \"logoUrl\" FROM companies",
      " WHERE ">> \o where \o <<" ORDER BY ", "name">>

\* filterBy.minEmployees > filterBy.maxEmployees, both defined
MinExceedsMax(filterBy) ==
    /\ ~StrictEq(filterBy.minEmployees, Undefined)
    /\ ~StrictEq(filterBy.maxEmployees, Undefined)
    /\ ToInt(filterBy.minEmployees.v) > ToInt(filterBy.maxEmployees.v)

NoSqlRet == [kind |-> "none", error |-> "none", message |-> "", text |-> <<>>,
             values |-> <<>>, query |-> <<>>, rows |-> {}]

NoSqlCall == [fn |-> "none", arg |-> <<>>, jsToSql |-> <<>>]

SampleCompanies ==
    {[handle |-> "c1", name |-> "Net Co", description |-> "Desc1",
      numEmployees |-> 10, logoUrl |-> "http://c1.img"],
     [handle |-> "c2", name |-> "Acme", description |-> "Desc2",
      numEmployees |-> 3, logoUrl |-> "http://c2.img"]}

SampleJobs ==
    {[id |-> 1, title |-> "Net Admin", salary |-> 200, equity |-> "0.1",
      companyHandle |-> "c1"],
     [id |-> 2, title |-> "Cook", salary |-> 100, equity |-> "0",
      companyHandle |-> "c2"]}

CallSqlForPartialUpdate ==
    /\ sqlCall.fn = "none"
    /\ \E data \in UpdatePayloads, jsToSql \in Remappings :
        LET r == sqlForPartialUpdate(data, jsToSql)
        IN  /\ sqlCall' = [fn |-> "sqlForPartialUpdate", arg |-> data, jsToSql |-> jsToSql]
            /\ sqlRet' = [NoSqlRet EXCEPT !.kind = r.kind, !.error = r.error,
                                          !.message = r.message, !.text = r.text,
                                          !.values = r.values]
            /\ UNCHANGED <<authVars, dbVars>>

CallJobCreateSqlFilter ==
    /\ sqlCall.fn = "none"
    /\ \E filterBy \in JobFilters :
        LET r == Job_createSqlFilter(filterBy)
        IN  /\ sqlCall' = [fn |-> "Job._createSqlFilter", arg |-> filterBy, jsToSql |-> <<>>]
            /\ sqlRet' = [NoSqlRet EXCEPT !.kind = "return", !.text = r.where,
                                          !.values = r.values]
            /\ UNCHANGED <<authVars, dbVars>>

CallCompanyCreateSqlFilter ==
    /\ sqlCall.fn = "none"
    /\ \E filterBy \in CompanyFilters :
        LET r == Company_createSqlFilter(filterBy)
        IN  /\ sqlCall' = [fn |-> "Company._createSqlFilter", arg |-> filterBy,
                           jsToSql |-> <<>>]
            /\ sqlRet' = [NoSqlRet EXCEPT !.kind = "return", !.text = r.where,
                                          !.values = r.values]
            /\ UNCHANGED <<authVars, dbVars>>

JobFindSome ==
    /\ sqlCall.fn = "none"
    /\ \E filterBy \in JobFilters :
        LET f == Job_createSqlFilter(filterBy)
            stmt == JobFindSomeSql(f.where)
            r == DbSelect(stmt, f.values, jobs)
        IN  /\ sqlCall' = [fn |-> "Job.findSome", arg |-> filterBy, jsToSql |-> <<>>]
            /\ sqlRet' = [NoSqlRet EXCEPT !.kind = r.kind, !.error = r.error,
                                          !.query = stmt, !.values = f.values,
                                          !.rows = r.rows]
            /\ UNCHANGED <<authVars, dbVars>>

CompanyFindSome ==
    /\ sqlCall.fn = "none"
    /\ \E filterBy \in CompanyFilters :
        /\ sqlCall' = [fn |-> "Company.findSome", arg |-> filterBy, jsToSql |-> <<>>]
        /\ IF MinExceedsMax(filterBy)
           THEN sqlRet' = [NoSqlRet EXCEPT !.kind = "throw", !.error = "Error",
                                           !.message = "min needs to be less than max"]
           ELSE LET f == Company_createSqlFilter(filterBy)
                    stmt == CompanyFindSomeSql(f.where)
                    r == DbSelect(stmt, f.values, companies)
                IN  sqlRet' = [NoSqlRet EXCEPT !.kind = r.kind, !.error = r.error,
                                               !.query = stmt, !.values = f.values,
                                               !.rows = r.rows]
        /\ UNCHANGED <<authVars, dbVars>>

\* The caller takes the result; the next call starts afresh.
SqlReturn ==
    /\ sqlCall.fn # "none"
    /\ sqlCall' = NoSqlCall
    /\ sqlRet' = NoSqlRet
    /\ UNCHANGED <<authVars, dbVars>>

NextSql ==
    \/ SqlReturn
    \/ CallSqlForPartialUpdate
    \/ CallJobCreateSqlFilter
    \/ CallCompanyCreateSqlFilter
    \/ JobFindSome
    \/ CompanyFindSome


(***************************************************************************)
(* Job and Company models against the store.  An async method runs up to   *)
(* its first db.query when called; the store runs one statement at a time, *)
(* so each db.query is one atomic step and other calls run between two     *)
(* queries of the same method.                                             *)
(***************************************************************************)
NumCalls == 2
MaxJobId == 3

Slots == 1..NumCalls
Handles == {"c1", "c2"}
JobIds == 1..MaxJobId

CompanyData ==
    [handle : Handles, name : {"Net Co"}, description : {"Desc1"},
     numEmployees : {10}, logoUrl : {"http://c1.img"}]

JobData ==
    [title : {"Net Admin"}, salary : {200}, equity : {"0.1"}, companyHandle : Handles]

NoArg == [none |-> TRUE]

IdleCall == [pc |-> "idle", op |-> "none", arg |-> NoArg, outcome |-> "none",
             error |-> "none", message |-> <<>>, value |-> NoArg]

Started(op, arg, pc) == [IdleCall EXCEPT !.pc = pc, !.op = op, !.arg = arg,
                                         !.outcome = "pending"]

Throw(c, error, message) == [c EXCEPT !.pc = "done", !.outcome = "throw",
                                      !.error = error, !.message = message]

Return(c, value) == [c EXCEPT !.pc = "done", !.outcome = "return", !.value = value]

\* SELECT handle FROM companies WHERE handle = $1
SelectCompany(table, handle) == {c \in table : c.handle = handle}

\* INSERT INTO jobs (...) VALUES ($1, $2, $3, $4) RETURNING ...; id comes
\* from the table's sequence.
InsertJob(data, id) ==
    [id |-> id, title |-> data.title, salary |-> data.salary, equity |-> data.equity,
     companyHandle |-> data.companyHandle]

\* Job.create without the pre-check's throw.
JobCreateNoCheck(c, table) == [c EXCEPT !.pc = "insert"]

\* Job.create, up to the result of the pre-check query.
JobCreateCheck(c, table) ==
    LET company == SelectCompany(table, c.arg.companyHandle)
    IN  IF company = {}
        THEN Throw(c, "NotFoundError", <<"No company: ", c.arg.companyHandle>>)
        ELSE [c EXCEPT !.pc = "insert"]

JobCreate(p) ==
    /\ calls[p].pc = "idle"
    /\ nextId + Cardinality({q \in Slots : calls[q].op = "Job.create"
                                            /\ calls[q].pc = "insert"}) <= MaxJobId
    /\ \E data \in JobData :
         calls' = [calls EXCEPT ![p] =
                     JobCreateCheck(Started("Job.create", data, "check"), companies)]
    /\ UNCHANGED <<companies, jobs, nextId, authVars, sqlVars>>

JobCreateInsert(p) ==
    /\ calls[p].pc = "insert"
    /\ calls[p].op = "Job.create"
    /\ LET job == InsertJob(calls[p].arg, nextId)
       IN  /\ jobs' = jobs \cup {job}
           /\ calls' = [calls EXCEPT ![p] = Return(@, job)]
    /\ nextId' = nextId + 1
    /\ UNCHANGED <<companies, authVars, sqlVars>>

\* The identifiers Job.remove's body can resolve: its parameter.  (The
\* module-level bindings are db, NotFoundError, sqlForPartialUpdate, Company
\* and Job.)
JobRemoveScope(jobId) == [jobId |-> jobId]

\* Evaluating an identifier: its value, or a ReferenceError.
Resolve(scope, ident) ==
    IF ident \in DOMAIN scope
    THEN [ok |-> TRUE, value |-> scope[ident]]
    ELSE [ok |-> FALSE, value |-> 0]

\* DELETE FROM jobs WHERE id = $1 RETURNING id, with [id] as bind values
JobRemoveResult(c, table) ==
    LET id == Resolve(JobRemoveScope(c.arg.jobId), "id")
    IN  IF ~id.ok
        THEN [call |-> Throw(c, "ReferenceError", <<"id is not defined">>),
              table |-> table]
        ELSE IF {j \in table : j.id = id.value} = {}
        THEN [call |-> Throw(c, "NotFoundError", <<"No job: ", ToString(id.value)>>),
              table |-> table]
        ELSE [call |-> Return(c, NoArg),
              table |-> {j \in table : j.id # id.value}]

JobRemove(p) ==
    /\ calls[p].pc = "idle"
    /\ \E jobId \in JobIds :
         LET r == JobRemoveResult(Started("Job.remove", [jobId |-> jobId], "query"), jobs)
         IN  /\ calls' = [calls EXCEPT ![p] = r.call]
             /\ jobs' = r.table
    /\ UNCHANGED <<companies, nextId, authVars, sqlVars>>

\* Company.create without the duplicate check's throw.
CompanyCreateNoCheck(c, table) == [c EXCEPT !.pc = "insert"]

\* Company.create, up to the result of the duplicate-check query.
CompanyCreateCheck(c, table) ==
    LET duplicateCheck == SelectCompany(table, c.arg.handle)
    IN  IF duplicateCheck # {}
        THEN Throw(c, "BadRequestError", <<"Duplicate company: ", c.arg.handle>>)
        ELSE [c EXCEPT !.pc = "insert"]

CompanyCreate(p) ==
    /\ calls[p].pc = "idle"
    /\ \E data \in CompanyData :
         calls' = [calls EXCEPT ![p] =
                     CompanyCreateCheck(Started("Company.create", data, "check"), companies)]
    /\ UNCHANGED <<companies, jobs, nextId, authVars, sqlVars>>

\* INSERT INTO companies (...) RETURNING ...; handle is the table's primary
\* key, so a second row with the same handle is refused by the store.
CompanyCreateInsert(p) ==
    /\ calls[p].pc = "insert"
    /\ calls[p].op = "Company.create"
    /\ IF SelectCompany(companies, calls[p].arg.handle) # {}
       THEN /\ calls' = [calls EXCEPT ![p] =
                           Throw(@, "DatabaseError", <<"duplicate key value">>)]
            /\ UNCHANGED companies
       ELSE /\ companies' = companies \cup {calls[p].arg}
            /\ calls' = [calls EXCEPT ![p] = Return(@, calls[p].arg)]
    /\ UNCHANGED <<jobs, nextId, authVars, sqlVars>>

\* DELETE FROM companies WHERE handle = $1 RETURNING handle
CompanyRemoveResult(c, table) ==
    IF SelectCompany(table, c.arg.handle) = {}
    THEN [call |-> Throw(c, "NotFoundError", <<"No company: ", c.arg.handle>>),
          table |-> table]
    ELSE [call |-> Return(c, NoArg),
          table |-> {r \in table : r.handle # c.arg.handle}]

CompanyRemove(p) ==
    /\ calls[p].pc = "idle"
    /\ \E handle \in Handles :
         LET r == CompanyRemoveResult(
                     Started("Company.remove", [handle |-> handle], "query"), companies)
         IN  /\ calls' = [calls EXCEPT ![p] = r.call]
             /\ companies' = r.table
    /\ UNCHANGED <<jobs, nextId, authVars, sqlVars>>

\* The caller takes the settled promise; the slot is free for the next call.
Settle(p) ==
    /\ calls[p].pc = "done"
    /\ calls' = [calls EXCEPT ![p] = IdleCall]
    /\ UNCHANGED <<companies, jobs, nextId, authVars, sqlVars>>

NextDb ==
    \E p \in Slots :
        \/ JobCreate(p)
        \/ JobCreateInsert(p)
        \/ JobRemove(p)
        \/ CompanyCreate(p)
        \/ CompanyCreateInsert(p)
        \/ CompanyRemove(p)
        \/ Settle(p)

(***************************************************************************)
(* Specifications                                                          *)
(***************************************************************************)
AuthIdle ==
    /\ req = [hasHeaders |-> FALSE, authorization |-> [t |-> "undefined", s |-> <<>>],
              username |-> "test"]
    /\ locals = [user |-> NoUser]
    /\ ran = "none"
    /\ nextCalls = 0
    /\ thrown = "none"

SqlIdle == sqlCall = NoSqlCall /\ sqlRet = NoSqlRet

DbEmpty ==
    /\ companies = {}
    /\ jobs = {}
    /\ nextId = 1
    /\ calls = [p \in Slots |-> IdleCall]

DbSample ==
    /\ companies = SampleCompanies
    /\ jobs = SampleJobs
    /\ nextId = 3
    /\ calls = [p \in Slots |-> IdleCall]

InitAuth == AuthIdle /\ SqlIdle /\ DbEmpty
InitSql == AuthIdle /\ SqlIdle /\ DbSample
InitDb == AuthIdle /\ SqlIdle /\ DbEmpty

SpecAuth == InitAuth /\ [][NextAuth]_vars
SpecSql == InitSql /\ [][NextSql]_vars
SpecDb == InitDb /\ [][NextDb]_vars


(***************************************************************************)
(* Properties of the auth middleware chain (SpecAuth)                      *)
(***************************************************************************)

\* C1: ensureIsAdmin calls next exactly when a Principal is attached whose
\* isAdmin is the boolean true; in every other case (no Principal, false,
\* absent, the string "true") it throws UnauthorizedError and does not call
\* next.
C1_EnsureIsAdmin ==
    ran = "ensureIsAdmin" =>
        IF /\ locals.user.t = "object"
           /\ locals.user.isAdmin.t = "boolean"
           /\ locals.user.isAdmin.v = "true"
        THEN nextCalls = 1 /\ thrown = "none"
        ELSE nextCalls = 0 /\ thrown = "UnauthorizedError"

\* A Principal whose isAdmin is the string "true" was refused.
C1_Witness ==
    /\ ran = "ensureIsAdmin"
    /\ locals.user.t = "object"
    /\ locals.user.isAdmin = Str("true")
    /\ thrown = "UnauthorizedError"
    /\ nextCalls = 0

\* C2: ensureSameUserOrAdmin throws UnauthorizedError when no Principal is
\* attached; with one attached it calls next exactly when the Principal's
\* username is the request's target username or its isAdmin is the boolean
\* true, and throws UnauthorizedError otherwise.
C2_EnsureSameUserOrAdmin ==
    ran = "ensureSameUserOrAdmin" =>
        LET user == locals.user
            same == user.username.t = "string" /\ user.username.v = req.username
            admin == user.isAdmin.t = "boolean" /\ user.isAdmin.v = "true"
        IN  IF user.t = "object" /\ (same \/ admin)
            THEN nextCalls = 1 /\ thrown = "none"
            ELSE nextCalls = 0 /\ thrown = "UnauthorizedError"

\* A Principal that is no admin was let through to its own username.
C2_Witness ==
    /\ ran = "ensureSameUserOrAdmin"
    /\ locals.user.t = "object"
    /\ locals.user.username = Str(req.username)
    /\ locals.user.isAdmin = Bool(FALSE)
    /\ nextCalls = 1
    /\ thrown = "none"

\* The tokens of a header string that verify against the shared secret.
GoodTokensIn(s) ==
    {i \in 1..Len(s) : /\ IsJwt(s[i])
                       /\ TokenInfo(s[i]).key = SECRET_KEY
                       /\ ~TokenInfo(s[i]).expired}

\* C3: authenticateJWT throws nothing and calls next once for every request;
\* a Principal is attached only when the header carries a token that is
\* signed with the shared secret and not expired (and is then that token's
\* payload); with no headers, no authorization header, or a header whose
\* token is garbage, wrongly signed or expired, no Principal is attached; a
\* "Bearer <valid token>" header attaches the token's payload.
C3_AuthenticateNeverFails ==
    ran = "authenticateJWT" =>
        /\ thrown = "none"
        /\ nextCalls = 1
        /\ locals.user.t \in {"undefined", "object"}
        /\ locals.user.t = "object" =>
              /\ req.hasHeaders
              /\ req.authorization.t = "string"
              /\ \E i \in GoodTokensIn(req.authorization.s) :
                    locals.user = TokenInfo(req.authorization.s[i]).payload
        /\ ( \/ ~req.hasHeaders
             \/ req.authorization.t = "undefined"
             \/ GoodTokensIn(req.authorization.s) = {} ) => locals.user = NoUser
        /\ \A tn \in TokenNames :
              ( /\ req.hasHeaders
                /\ req.authorization.t = "string"
                /\ req.authorization.s = <<"Bearer", " ", tn>>
                /\ GoodTokensIn(<<tn>>) # {} ) => locals.user = TokenInfo(tn).payload

\* A token signed with the wrong secret went through with no Principal.
C3_Witness ==
    /\ ran = "authenticateJWT"
    /\ req.hasHeaders
    /\ req.authorization.t = "string"
    /\ req.authorization.s = <<"Bearer", " ", "tokWrongKey">>
    /\ locals.user = NoUser
    /\ nextCalls = 1
    /\ thrown = "none"


(***************************************************************************)
(* Properties of the query builders and findSome (SpecSql)                 *)
(***************************************************************************)

\* C7: for a payload of n >= 1 fields, sqlForPartialUpdate returns n clauses
\* joined by ", ", in the payload's key order, the k-th being "<column>"=$k
\* with <column> the remapped name when the remapping has the field and the
\* field name otherwise, and the n values in the same order; for the empty
\* payload it throws BadRequestError("No data").
C7_PartialUpdateShape ==
    sqlCall.fn = "sqlForPartialUpdate" =>
        LET d == sqlCall.arg
            m == sqlCall.jsToSql
            n == Len(d)
            text == sqlRet.text
        IN  IF n = 0
            THEN /\ sqlRet.kind = "throw"
                 /\ sqlRet.error = "BadRequestError"
                 /\ sqlRet.message = "No data"
            ELSE /\ sqlRet.kind = "return"
                 /\ Len(sqlRet.values) = n
                 /\ \A k \in 1..n : sqlRet.values[k] = d[k].v
                 /\ Len(text) = 5 * n - 1
                 /\ Cardinality({i \in 1..Len(text) : text[i] = "\"=$"}) = n
                 /\ \A k \in 1..n :
                      LET b == 5 * (k - 1)
                      IN  /\ text[b + 1] = "\""
                          /\ text[b + 2] = IF d[k].k \in DOMAIN m THEN m[d[k].k]
                                                                ELSE d[k].k
                          /\ text[b + 3] = "\"=$"
                          /\ text[b + 4] = ToString(k)
                          /\ k < n => text[b + 5] = ", "

\* A two-field payload whose first field is remapped and whose second is not.
C7_Witness ==
    /\ sqlCall.fn = "sqlForPartialUpdate"
    /\ Len(sqlCall.arg) = 2
    /\ sqlCall.arg[1].k = "numEmployees"
    /\ sqlCall.arg[2].k = "name"
    /\ DOMAIN sqlCall.jsToSql = {"numEmployees", "logoUrl"}
    /\ sqlRet.kind = "return"
    /\ sqlRet.text = <<"\"", sqlCall.jsToSql["numEmployees"], "\"=$", "1", ", ",
                       "\"", "name", "\"=$", "2">>

\* The criteria of a WHERE fragment, and what a builder must produce for a
\* list of value filters (left-hand side, bind value, present or not) and an
\* optional value-free criterion.
Present(x) == x.t # "undefined"

FilterShapeOk(filters, extra, where, values) ==
    LET crits == Split(where, " AND ")
        pres == {i \in 1..Len(filters) : filters[i].present}
        rank(i) == Cardinality({j \in pres : j <= i})
    IN  /\ Len(values) = Cardinality(pres)
        /\ Len(crits) = Cardinality(pres) + (IF extra THEN 1 ELSE 0)
        /\ \A i \in pres :
              /\ crits[rank(i)] = <<filters[i].lhs, ToString(rank(i))>>
              /\ values[rank(i)] = filters[i].value
        /\ extra => crits[Len(crits)] = <<"equity > 0">>
        /\ \A k \in 1..Len(crits) : crits[k] = <<"equity > 0">> => extra
        /\ (pres = {} /\ ~extra) => (where = <<>> /\ values = <<>>)

C9_NoDanglingWhere ==
    (sqlCall.fn \in {"Job.findSome", "Company.findSome"} /\ sqlRet.error # "Error") =>
        /\ ~HasWhere(sqlRet.query) \/ Condition(sqlRet.query) # <<>>
        /\ sqlRet.kind = "return"


(***************************************************************************)
(* Properties of the Job and Company models (SpecDb)                       *)
(***************************************************************************)

\* Slot p makes a call of op in this step.
Calls(p, op) == calls[p].pc = "idle" /\ calls'[p].op = op

\* C4: Job.remove(id) with an id that matches no Job row fails with
\* NotFoundError and leaves the Job rows unchanged; with the id of an
\* existing Job it deletes exactly that row and returns no value.
C4_JobRemove ==
    [][\A p \in Slots :
         Calls(p, "Job.remove") =>
            LET id == calls'[p].arg.jobId
            IN  IF {j \in jobs : j.id = id} = {}
                THEN /\ calls'[p].outcome = "throw"
                     /\ calls'[p].error = "NotFoundError"
                     /\ jobs' = jobs
                ELSE /\ calls'[p].outcome = "return"
                     /\ calls'[p].value = NoArg
                     /\ jobs' = {j \in jobs : j.id # id}]_vars

\* C5: Company.create with a handle that is already in the store fails with
\* the duplicate error (BadRequestError "Duplicate company: <handle>"),
\* never reaches its INSERT, and leaves the Company rows as they were.
C5_CompanyCreateDuplicate ==
    [][\A p \in Slots :
         ( /\ Calls(p, "Company.create")
           /\ \E c \in companies : c.handle = calls'[p].arg.handle ) =>
            /\ calls'[p].pc = "done"
            /\ calls'[p].outcome = "throw"
            /\ calls'[p].error = "BadRequestError"
            /\ calls'[p].message = <<"Duplicate company: ", calls'[p].arg.handle>>
            /\ companies' = companies
            /\ Cardinality(companies') = Cardinality(companies)]_vars

\* A create of a handle that is in the store has failed as a duplicate.
C5_Witness ==
    \E p \in Slots :
        /\ calls[p].pc = "done"
        /\ calls[p].op = "Company.create"
        /\ calls[p].outcome = "throw"
        /\ calls[p].error = "BadRequestError"
        /\ \E c \in companies : c.handle = calls[p].arg.handle

\* C6: Job.create with a companyHandle that matches no Company row fails
\* with NotFoundError naming the handle, never reaches its INSERT and leaves
\* both tables unchanged; with the handle of an existing Company it goes on
\* to its INSERT, which adds exactly one Job row, carrying the call's data
\* and an id no other row has, and returns that row.
C6_JobCreate ==
    [][\A p \in Slots :
         /\ Calls(p, "Job.create") =>
               LET h == calls'[p].arg.companyHandle
               IN  IF \E c \in companies : c.handle = h
                   THEN /\ calls'[p].pc = "insert"
                        /\ calls'[p].outcome = "pending"
                        /\ jobs' = jobs /\ companies' = companies
                   ELSE /\ calls'[p].pc = "done"
                        /\ calls'[p].outcome = "throw"
                        /\ calls'[p].error = "NotFoundError"
                        /\ calls'[p].message = <<"No company: ", h>>
                        /\ jobs' = jobs /\ companies' = companies
         /\ ( /\ calls[p].op = "Job.create"
              /\ calls[p].pc = "insert"
              /\ calls'[p] # calls[p] ) =>
               /\ calls'[p].pc = "done"
               /\ calls'[p].outcome = "return"
               /\ calls'[p].value \notin jobs
               /\ jobs' = jobs \cup {calls'[p].value}
               /\ Cardinality(jobs') = Cardinality(jobs) + 1
               /\ \A j \in jobs : j.id # calls'[p].value.id
               /\ calls'[p].value.companyHandle = calls[p].arg.companyHandle
               /\ calls'[p].value.title = calls[p].arg.title
               /\ companies' = companies]_vars

\* One create has failed for a missing company and another has returned its
\* new row.
C6_Witness ==
    \E p, q \in Slots :
        /\ calls[p].pc = "done" /\ calls[p].op = "Job.create"
        /\ calls[p].error = "NotFoundError"
        /\ calls[q].pc = "done" /\ calls[q].op = "Job.create"
        /\ calls[q].outcome = "return"
        /\ calls[q].value \in jobs

\* C10: whenever Job.create inserts a Job row, the Company its
\* companyHandle names is in the store at that moment.
C10_InsertSeesCompany ==
    [][\A p \in Slots :
         ( /\ calls[p].op = "Job.create"
           /\ calls[p].pc = "insert"
           /\ calls'[p].pc = "done" ) =>
            \A j \in jobs' \ jobs :
                \E c \in companies' : c.handle = j.companyHandle]_vars

====
